---- MODULE Spec2Model ----
(***************************************************************************)
(* A model of hansel.Hansel (src/hansel/hansel.py): the 4-D evidence       *)
(* matrix [symbol_from][symbol_to][pos_from][pos_to], its accumulate /     *)
(* read / reweight operations and the probability estimators built on it.  *)
(*                                                                         *)
(* Numbers.  The cells are float32.  The model holds every weight as an    *)
(* integer count of units of 1/One (One = 2: half observations), and every *)
(* ratio likewise.  Every value the model produces is a small dyadic       *)
(* rational, which float32 represents exactly, so the arithmetic of the    *)
(* code on these values is exact and the model computes the same numbers.  *)
(* A product of two such numbers is held in "fine" units of 1/(One*One).   *)
(***************************************************************************)
EXTENDS Integers, Sequences, FiniteSets, TLC

\* ------------------------------------------------------------------ bounds
\* n_positions handed to init_matrix
NPositions == 2
\* the number of mutating calls made on the matrix in one behaviour
MaxOps == 2
\* the number of add_observation calls each concurrent worker makes
WorkerCalls == 2
\* the longest current_path handed to get_edge_weights_at
MaxPath == 3
\* the largest window self.L
MaxWindow == 2

\* ------------------------------------------------------- program constants
\* 1.0, the threshold of __get_observation and reweight_observation, in units
One == 2
Half == One \div 2

\* --------------------------------------------------------- symbol table
\* the symbols the matrix is allocated with, in order, and its unsymbols
symbols == <<"A", "N">>
unsymbols == {"N"}

\* symbols_i: the indices 0..n-1 (python enumerate) of the symbols
symbols_i == 0 .. (Len(symbols) - 1)
\* __symbol_unnum: self.symbols[num]
symbol_unnum(num) == symbols[num + 1]
\* __symbol_num: self.symbols_d[symbol]
symbol_num(symbol) == CHOOSE i \in symbols_i : symbol_unnum(i) = symbol
\* valid_symbols_i: the indices of the symbols that are not unsymbols
valid_symbols_i == {i \in symbols_i : symbol_unnum(i) \notin unsymbols}
SymbolNames == {symbols[k] : k \in 1 .. Len(symbols)}

\* ----------------------------------------------------------- the matrix
\* init_matrix: n_positions += 2, the size of each position axis
AxisSize == NPositions + 2
Axis == 0 .. (AxisSize - 1)
Cells == symbols_i \X symbols_i \X Axis \X Axis
\* hanselx.fill(0.0)
init_matrix == [c \in Cells |-> 0]

\* numpy's resolution of an integer index on an axis of AxisSize entries:
\* -AxisSize..-1 wrap around to the end, anything else outside is an IndexError
InAxis(p) == (p >= -AxisSize) /\ (p < AxisSize)
NumpyIndex(p) == IF p < 0 THEN p + AxisSize ELSE p

\* __orient_positions
OrientPositionsNoSwap(i, j) == <<i, j>>
OrientPositions(i, j) == IF i < j THEN <<i, j>> ELSE <<j, i>>

\* the cell self[symbol_from, symbol_to, pos_from, pos_to] addresses after
\* __orient_positions (symbols are indices; positions are in InAxis)
CellOfSameSymbol(symbol_from, symbol_to, pos_from, pos_to) ==
    LET o == OrientPositions(pos_from, pos_to)
    IN  <<symbol_from, symbol_from, NumpyIndex(o[1]), NumpyIndex(o[2])>>
CellOf(symbol_from, symbol_to, pos_from, pos_to) ==
    LET o == OrientPositions(pos_from, pos_to)
    IN  <<symbol_from, symbol_to, NumpyIndex(o[1]), NumpyIndex(o[2])>>

\* whether indexing with the pair of positions raises IndexError
IndexFails(pos_from, pos_to) == ~InAxis(pos_from) \/ ~InAxis(pos_to)

\* self[...] += value, on matrix m (the positions are in InAxis)
StoreAddOverwrite(m, symbol_from, symbol_to, pos_from, pos_to, value) ==
    [m EXCEPT ![CellOf(symbol_from, symbol_to, pos_from, pos_to)] = value]
StoreAdd(m, symbol_from, symbol_to, pos_from, pos_to, value) ==
    [m EXCEPT ![CellOf(symbol_from, symbol_to, pos_from, pos_to)] = @ + value]

\* __get_observation's clamp of the stored value v
Clamp(v) == IF v >= One THEN v ELSE 0

\* __get_observation (symbols are indices; the positions are in InAxis)
GetObservation(m, symbol_from, symbol_to, pos_from, pos_to) ==
    Clamp(m[CellOf(symbol_from, symbol_to, pos_from, pos_to)])

\* ------------------------------------------------------------ arithmetic
RECURSIVE SumOver(_, _)
\* the sum of f[x] over the finite set S (python's accumulation loops, ndarray.sum)
SumOver(f, S) ==
    IF S = {} THEN 0
    ELSE LET x == CHOOSE y \in S : TRUE IN f[x] + SumOver(f, S \ {x})

\* ----------------------------------------------------------------- state
VARIABLES
    M,            \* the cells of the ndarray, in units of 1/One
    is_weighted,  \* self.is_weighted
    last,         \* the last call made on the matrix, its arguments and outcome
    nops,         \* how many calls were made
    pc,           \* concurrent accumulation: where each worker is in add_observation
    cur,          \* the arguments of each worker's call in progress
    tmp,          \* the cell value each worker read and has not yet written back
    ncalls,       \* the calls each worker has started
    owner,        \* which worker writes each cell (the callers' partition)
    seqM,         \* the matrix the same calls give when run one after another
    overlapped    \* whether a worker read a cell while another call was in progress

vars == <<M, is_weighted, last, nops, pc, cur, tmp, ncalls, owner, seqM, overlapped>>
seqVars == <<M, is_weighted, last, nops>>
concVars == <<pc, cur, tmp, ncalls, owner, seqM, overlapped>>

\* the inputs: positions in and just outside [0, n_positions+1], amounts, ratios
PosArgs == -1 .. (AxisSize)
AddValues == {Half, One, 2 * One}
Ratios == {0, Half, One}
Workers == {"w1", "w2"}

NoCall == [sf |-> 0, st |-> 0, pf |-> 0, pt |-> 0, x |-> 0]
Call(op, sf, st, pf, pt, x, ret, err) ==
    [op |-> op, sf |-> sf, st |-> st, pf |-> pf, pt |-> pt, x |-> x,
     ret |-> ret, err |-> err]

\* __new__ after init_matrix: zero cells, is_weighted False
Init ==
    /\ M = init_matrix
    /\ is_weighted = FALSE
    /\ last = Call("init", 0, 0, 0, 0, 0, 0, "none")
    /\ nops = 0
    /\ pc = [w \in Workers |-> "idle"]
    /\ cur = [w \in Workers |-> NoCall]
    /\ tmp = [w \in Workers |-> 0]
    /\ ncalls = [w \in Workers |-> 0]
    /\ owner = [c \in Cells |-> "none"]
    /\ seqM = init_matrix
    /\ overlapped = FALSE

\* add_observation(symbol_from, symbol_to, pos_from, pos_to, value); the symbols
\* are names.  The read of self[...] raises IndexError before anything is stored.
add_observation(symbol_from, symbol_to, pos_from, pos_to, value) ==
    LET sf == symbol_num(symbol_from)
        st == symbol_num(symbol_to)
    IN  /\ nops < MaxOps
        /\ nops' = nops + 1
        /\ IF IndexFails(pos_from, pos_to)
           THEN /\ M' = M
                /\ last' = Call("add_observation", sf, st, pos_from, pos_to, value,
                                0, "IndexError")
           ELSE /\ M' = StoreAdd(M, sf, st, pos_from, pos_to, value)
                /\ last' = Call("add_observation", sf, st, pos_from, pos_to, value,
                                0, "none")
        /\ UNCHANGED <<is_weighted, concVars>>

\* reweight_observation on matrix m with the flag w, positions in InAxis: the
\* matrix, the flag and the amount returned afterwards.  new_v is held in fine
\* units (old_v*One - ratio*old_v), so new_v < 1 is new < One*One.
ReweightObservationNoFloor(m, w, s_a, s_b, pos_from, pos_to, ratio) ==
    LET c == CellOf(s_a, s_b, pos_from, pos_to)
        old_v == m[c]
        new_v == (old_v * One) - (ratio * old_v)
    IN  IF old_v # 0
        THEN [m |-> [m EXCEPT ![c] = new_v \div One], w |-> w,
              ret |-> old_v - (new_v \div One)]
        ELSE [m |-> m, w |-> TRUE, ret |-> 0]
ReweightObservationLe(m, w, s_a, s_b, pos_from, pos_to, ratio) ==
    LET c == CellOf(s_a, s_b, pos_from, pos_to)
        old_v == m[c]
        new_v == (old_v * One) - (ratio * old_v)
    IN  IF old_v # 0
        THEN IF new_v <= One * One
             THEN [m |-> [m EXCEPT ![c] = 0], w |-> w, ret |-> old_v]
             ELSE [m |-> [m EXCEPT ![c] = new_v \div One], w |-> w,
                   ret |-> old_v - (new_v \div One)]
        ELSE [m |-> m, w |-> TRUE, ret |-> 0]
ReweightObservation(m, w, s_a, s_b, pos_from, pos_to, ratio) ==
    LET c == CellOf(s_a, s_b, pos_from, pos_to)
        old_v == m[c]
        new_v == (old_v * One) - (ratio * old_v)
    IN  IF old_v # 0
        THEN IF new_v < One * One
             THEN [m |-> [m EXCEPT ![c] = 0], w |-> w, ret |-> old_v]
             ELSE [m |-> [m EXCEPT ![c] = new_v \div One], w |-> w,
                   ret |-> old_v - (new_v \div One)]
        ELSE [m |-> m, w |-> TRUE, ret |-> 0]

\* whether the new value reweight_observation would store is a whole number of units
Representable(m, s_a, s_b, pos_from, pos_to, ratio) ==
    LET old_v == m[CellOf(s_a, s_b, pos_from, pos_to)]
        new_v == (old_v * One) - (ratio * old_v)
    IN  (new_v >= One * One) => (new_v % One = 0)

\* reweight_observation(symbol_from, symbol_to, pos_from, pos_to, ratio); the
\* symbols are indices (HanselSymbol)
reweight_observation(s_a, s_b, pos_from, pos_to, ratio) ==
    /\ nops < MaxOps
    /\ nops' = nops + 1
    /\ IF IndexFails(pos_from, pos_to)
       THEN /\ UNCHANGED <<M, is_weighted>>
            /\ last' = Call("reweight_observation", s_a, s_b, pos_from, pos_to, ratio,
                            0, "IndexError")
       ELSE /\ Representable(M, s_a, s_b, pos_from, pos_to, ratio)
            /\ LET r == ReweightObservation(M, is_weighted, s_a, s_b,
                                            pos_from, pos_to, ratio)
               IN  /\ M' = r.m
                   /\ is_weighted' = r.w
                   /\ last' = Call("reweight_observation", s_a, s_b, pos_from, pos_to,
                                   ratio, r.ret, "none")
    /\ UNCHANGED concVars

\* reweight_matrix on matrix m with the flag w.  "self = self - (self*ratio)"
\* binds the local name self to a new array: the cells of the matrix the method
\* was called on are not written, and is_weighted is set on the new array only.
\* The amount returned, total - self.sum(), is in fine units.
ReweightMatrix(m, w, ratio) ==
    [m |-> m,
     w |-> w,
     ret |-> (SumOver(m, Cells) * One)
             - SumOver([c \in Cells |-> (m[c] * One) - (m[c] * ratio)], Cells)]

\* reweight_matrix(ratio)
reweight_matrix(ratio) ==
    /\ nops < MaxOps
    /\ nops' = nops + 1
    /\ LET r == ReweightMatrix(M, is_weighted, ratio)
       IN  /\ M' = r.m
           /\ is_weighted' = r.w
           /\ last' = Call("reweight_matrix", 0, 0, 0, 0, ratio, r.ret, "none")
    /\ UNCHANGED concVars

Next ==
    \/ \E a, b \in SymbolNames, i, j \in PosArgs, v \in AddValues :
          add_observation(a, b, i, j, v)
    \/ \E a, b \in symbols_i, i, j \in PosArgs, r \in Ratios :
          reweight_observation(a, b, i, j, r)
    \/ \E r \in Ratios : reweight_matrix(r)

Spec == Init /\ [][Next]_vars

\* ---------------------------------------------------- probability engine
\* The outcome of a query: kind is "ok" or the exception raised.
Raised(kind) == [kind |-> kind, marg |-> [a \in {} |-> 0], total |-> 0,
                 num |-> 0, den |-> 0]

\* get_counts_at(at_pos) on matrix m: marg maps each permitted symbol whose
\* observations at (at_pos, at_pos+1) sum to more than 0 to that sum.  The first
\* __get_observation raises IndexError when at_pos or at_pos+1 is off the axis.
get_counts_at(m, at_pos) ==
    IF IndexFails(at_pos, at_pos + 1) THEN Raised("IndexError")
    ELSE LET permitted_a_symbols == IF at_pos = 0 THEN symbols_i ELSE valid_symbols_i
             obs(symbol_a) ==
                 SumOver([symbol_b \in symbols_i |->
                             GetObservation(m, symbol_a, symbol_b, at_pos, at_pos + 1)],
                         symbols_i)
             seen == {symbol_a \in permitted_a_symbols : obs(symbol_a) > 0}
             marg == [symbol_a \in seen |-> obs(symbol_a)]
         IN  [kind |-> "ok", marg |-> marg, total |-> SumOver(marg, seen),
              num |-> 0, den |-> 0]

\* get_marginal_of_at(of_symbol, at_symbol): the quotient num/den, or the KeyError
\* of marginal[of_symbol]
get_marginal_of_at(m, of_symbol, at_symbol) ==
    LET marginal == get_counts_at(m, at_symbol)
    IN  IF marginal.kind # "ok" THEN marginal
        ELSE IF of_symbol \notin DOMAIN marginal.marg THEN Raised("KeyError")
        ELSE [kind |-> IF marginal.total = 0 THEN "ZeroDivisionError" ELSE "ok",
              marg |-> [a \in {} |-> 0], total |-> 0,
              num |-> marginal.marg[of_symbol], den |-> marginal.total]

\* get_spanning_support(symbol_to, pos_from, pos_to), positions in InAxis
get_spanning_support(m, symbol_to, pos_from, pos_to) ==
    SumOver([symbol_from \in valid_symbols_i |->
                GetObservation(m, symbol_from, symbol_to, pos_from, pos_to)],
            valid_symbols_i)

\* __estimate_conditional(av, obs, total): (1 + obs)/float(av + total), av a count
\* and obs, total in units.  With a zero denominator python raises
\* ZeroDivisionError when 1 + obs is a python number (obs is the int 0 that
\* __get_observation returns for a clamped cell) and numpy gives inf when obs
\* is a float32.
estimate_conditional(av, obs, total) ==
    LET num == One + obs
        den == (av * One) + total
    IN  [kind |-> IF den # 0 THEN "ok"
                  ELSE IF obs = 0 THEN "ZeroDivisionError" ELSE "inf",
         marg |-> [a \in {} |-> 0], total |-> 0, num |-> num, den |-> den]

\* get_conditional_of_at(symbol_from, symbol_to, pos_from, pos_to), in the order
\* of its statements: each may raise before the estimate is computed
get_conditional_of_at(m, symbol_from, symbol_to, pos_from, pos_to) ==
    LET marg_from == get_counts_at(m, pos_from)
        marg_sym_from == get_marginal_of_at(m, symbol_from, pos_from)
    IN  IF marg_from.kind # "ok" THEN marg_from
        ELSE IF IndexFails(pos_from, pos_to) THEN Raised("IndexError")
        ELSE IF marg_sym_from.kind # "ok" THEN Raised(marg_sym_from.kind)
        ELSE LET obs == GetObservation(m, symbol_from, symbol_to, pos_from, pos_to)
                 total == get_spanning_support(m, symbol_to, pos_from, pos_to)
                 valid_symbols_seen ==
                     Cardinality({s \in valid_symbols_i : s \in DOMAIN marg_from.marg})
             IN  estimate_conditional(valid_symbols_seen, obs, total)

\* the number of path entries get_edge_weights_at conditions on: len(current_path)-1
\* when that is less than L, else L (n is len(current_path))
l_limit_whole_path(n, L) == n - 1
l_limit(n, L) == IF n - 1 < L THEN n - 1 ELSE L

\* one summand of a branch's score: the call whose log10 is added and its outcome
Term(fn, sf, st, pf, pt, val) ==
    [fn |-> fn, sf |-> sf, st |-> st, pf |-> pf, pt |-> pt, val |-> val]

\* the summands get_edge_weights_at adds up for symbol, in order: for l in
\* range(0, l_limit) the conditional of current_path[curr_i] at curr_i when
\* symbol_pos > 1, then the marginal of symbol at symbol_pos.  The python index
\* curr_i is entry curr_i + 1 of the sequence current_path.
branch_terms(m, L, symbol_pos, current_path, symbol) ==
    LET n == Len(current_path)
        lim == IF symbol_pos > 1 THEN l_limit(n, L) ELSE 0
        cond(l) ==
            LET curr_i == (n - 1) - l
            IN  Term("conditional", current_path[curr_i + 1], symbol, curr_i, symbol_pos,
                     get_conditional_of_at(m, current_path[curr_i + 1], symbol,
                                           curr_i, symbol_pos))
        marg == Term("marginal", symbol, symbol, symbol_pos, symbol_pos,
                     get_marginal_of_at(m, symbol, symbol_pos))
    IN  [k \in 1 .. (IF lim > 0 THEN lim ELSE 0) |-> cond(k - 1)] \o <<marg>>

\* get_edge_weights_at(symbol_pos, current_path) on matrix m with window self.L = L.
\* curr_branches[symbol] is the sum of the log10 of its summands; the model keeps
\* the summands.  An exception of a summand (log10 of inf is inf, no exception)
\* or of get_counts_at ends the call: the symbols are scored in the order of the
\* dict, by index.
get_edge_weights_at(m, L, symbol_pos, current_path) ==
    LET counts == get_counts_at(m, symbol_pos)
        scored == {symbol \in DOMAIN counts.marg : symbol_unnum(symbol) \notin unsymbols}
        terms == [symbol \in scored |-> branch_terms(m, L, symbol_pos, current_path, symbol)]
        raises(t) == t.val.kind \notin {"ok", "inf"}
        failing == {symbol \in scored :
                       \E k \in 1 .. Len(terms[symbol]) : raises(terms[symbol][k])}
    IN  IF counts.kind # "ok" THEN [kind |-> counts.kind, curr_branches |-> <<>>]
        ELSE IF failing # {}
        THEN LET symbol == CHOOSE x \in failing : \A y \in failing : x <= y
                 k == CHOOSE i \in 1 .. Len(terms[symbol]) :
                          /\ raises(terms[symbol][i])
                          /\ \A j \in 1 .. (i - 1) : ~raises(terms[symbol][j])
             IN  [kind |-> terms[symbol][k].val.kind, curr_branches |-> <<>>]
        ELSE [kind |-> "ok", curr_branches |-> terms]

\* ------------------------------------------------ concurrent accumulation
\* Workers share the matrix (init_matrix: a multiprocessing Array, lock=False) and
\* each runs add_observation calls.  "self[...] += value" is a read of the cell
\* (ndarray.__getitem__), an addition, and a write (ndarray.__setitem__): another
\* worker may run between the read and the write.

\* the symbols and position pairs the workers' calls draw on (in order, swapped,
\* equal); each call adds one observation
ConcSymbols == SymbolNames
ConcPosPairs == {<<0, 1>>, <<1, 0>>, <<1, 1>>}

\* the cell the write-disjointness contract speaks of: the symbol pair as given,
\* the positions in (min, max) order
CanonicalCell(sf, st, pos_from, pos_to) ==
    <<sf, st, IF pos_from <= pos_to THEN pos_from ELSE pos_to,
              IF pos_from <= pos_to THEN pos_to ELSE pos_from>>

\* worker w starts add_observation and reads the cell; the callers' contract: no
\* other worker writes this cell
add_read(w, symbol_from, symbol_to, pos_from, pos_to, value) ==
    LET sf == symbol_num(symbol_from)
        st == symbol_num(symbol_to)
        cell == CanonicalCell(sf, st, pos_from, pos_to)
    IN  /\ pc[w] = "idle"
        /\ ncalls[w] < WorkerCalls
        /\ owner[cell] \in {"none", w}
        /\ owner' = [owner EXCEPT ![cell] = w]
        /\ ncalls' = [ncalls EXCEPT ![w] = @ + 1]
        /\ cur' = [cur EXCEPT ![w] = [sf |-> sf, st |-> st, pf |-> pos_from,
                                      pt |-> pos_to, x |-> value]]
        /\ tmp' = [tmp EXCEPT ![w] = M[CellOf(sf, st, pos_from, pos_to)]]
        /\ pc' = [pc EXCEPT ![w] = "write"]
        /\ seqM' = StoreAdd(seqM, sf, st, pos_from, pos_to, value)
        /\ overlapped' = (overlapped \/ \E o \in Workers \ {w} : pc[o] = "write")
        /\ UNCHANGED seqVars

\* worker w writes the value it read plus its amount back to the cell and returns
add_write(w) ==
    /\ pc[w] = "write"
    /\ M' = [M EXCEPT ![CellOf(cur[w].sf, cur[w].st, cur[w].pf, cur[w].pt)] =
                          tmp[w] + cur[w].x]
    /\ pc' = [pc EXCEPT ![w] = "idle"]
    /\ cur' = [cur EXCEPT ![w] = NoCall]
    /\ tmp' = [tmp EXCEPT ![w] = 0]
    /\ UNCHANGED <<is_weighted, last, nops, ncalls, owner, seqM, overlapped>>

NextConc ==
    \/ \E w \in Workers, a, b \in ConcSymbols, p \in ConcPosPairs :
          add_read(w, a, b, p[1], p[2], One)
    \/ \E w \in Workers : add_write(w)

SpecConc == Init /\ [][NextConc]_vars

\* ================================================================ claims
\* the positions of the matrix, [0, n_positions+1]
Positions == 0 .. (NPositions + 1)
InRange(pos_from, pos_to) == pos_from \in Positions /\ pos_to \in Positions
\* the cell the last call addressed
LastCell(l) == CellOf(l.sf, l.st, l.pf, l.pt)

\* C1 (as stated): add_observation(a, b, pos_from, pos_to, v) with in-range
\* pos_from <= pos_to, followed by get_observation with the same arguments,
\* returns what get_observation returned before the add plus v.
C1_RoundTrip ==
    [][(/\ last'.op = "add_observation"
        /\ last'.err = "none"
        /\ InRange(last'.pf, last'.pt)
        /\ last'.pf <= last'.pt)
       => GetObservation(M', last'.sf, last'.st, last'.pf, last'.pt)
            = GetObservation(M, last'.sf, last'.st, last'.pf, last'.pt) + last'.x]_vars

\* C1 (amended): the round trip holds when the cell held at least 1.0 before
\* the add, or held 0 and the amount added is at least 1.0; a cell holding or
\* left holding a residue below 1.0 reads as 0.
C1_RoundTripWhole ==
    [][(/\ last'.op = "add_observation"
        /\ last'.err = "none"
        /\ InRange(last'.pf, last'.pt)
        /\ last'.pf <= last'.pt
        /\ \/ M[LastCell(last')] >= One
           \/ M[LastCell(last')] = 0 /\ last'.x >= One)
       => GetObservation(M', last'.sf, last'.st, last'.pf, last'.pt)
            = GetObservation(M, last'.sf, last'.st, last'.pf, last'.pt) + last'.x]_vars

\* C1 witness: an add_observation on a cell that already held at least 1.0
C1_Witness ==
    /\ last.op = "add_observation"
    /\ last.err = "none"
    /\ InRange(last.pf, last.pt)
    /\ last.pf <= last.pt
    /\ M[LastCell(last)] - last.x >= One
    /\ GetObservation(M, last.sf, last.st, last.pf, last.pt) = M[LastCell(last)]

\* C2: reweight_matrix(ratio) leaves every cell at cell*(1-ratio), so the total
\* mass at T*(1-ratio), and returns T*ratio.
C2_ReweightMatrixDecays ==
    [][(last'.op = "reweight_matrix")
       => /\ \A c \in Cells : M'[c] * One = (M[c] * One) - (M[c] * last'.x)
          /\ SumOver(M', Cells) * One
               = (SumOver(M, Cells) * One) - (SumOver(M, Cells) * last'.x)
          /\ last'.ret = SumOver(M, Cells) * last'.x]_vars

\* C3: conditional_of_at returns a finite value in (0, 1] and never fails, for
\* every symbol pair and every in-range position pair, in every state.
C3_ConditionalIsProbability ==
    \A symbol_from, symbol_to \in symbols_i : \A pos_from, pos_to \in Positions :
        LET r == get_conditional_of_at(M, symbol_from, symbol_to, pos_from, pos_to)
        IN  r.kind = "ok" /\ r.num > 0 /\ r.num <= r.den

\* C4: a reweight_observation call that changes a cell leaves is_weighted True,
\* and is_weighted, once True, stays True.
C4_ReweightMarksWeighted ==
    [][/\ (last'.op = "reweight_observation" /\ M' # M) => is_weighted'
       /\ is_weighted => is_weighted']_vars

C6_PositionCanonical ==
    \A a, b \in symbols_i : \A i, j \in Positions :
        (i < j) =>
            /\ GetObservation(M, a, b, i, j) = GetObservation(M, a, b, j, i)
            /\ \A v \in AddValues : StoreAdd(M, a, b, i, j, v) = StoreAdd(M, a, b, j, i, v)

\* C6 witness: after an add_observation given pos_from > pos_to, the symbol pair
\* in the other order reads differently at the same positions
C6_Witness ==
    /\ last.op = "add_observation"
    /\ last.err = "none"
    /\ InRange(last.pf, last.pt)
    /\ last.pf > last.pt
    /\ GetObservation(M, last.sf, last.st, last.pf, last.pt)
         # GetObservation(M, last.st, last.sf, last.pf, last.pt)
    /\ GetObservation(M, last.sf, last.st, last.pt, last.pf) >= One

\* C7: for every position in [0, n_positions+1], counts_at succeeds and its
\* "total" is the sum of its other entries.
C7_CountsTotal ==
    \A position \in Positions :
        LET c == get_counts_at(M, position)
        IN  c.kind = "ok" /\ c.total = SumOver(c.marg, DOMAIN c.marg)

\* C8: when the workers' calls write disjoint cells, whenever no call is in
\* progress the shared matrix is the matrix the calls give run one after
\* another: no increment is lost.
C8_NoLostUpdate ==
    (\A w \in Workers : pc[w] = "idle") => (M = seqM)

\* C8 witness: every worker has made all its calls, some read happened while
\* another worker was between its read and its write
C8_Witness ==
    /\ \A w \in Workers : pc[w] = "idle" /\ ncalls[w] = WorkerCalls
    /\ overlapped
    /\ M = seqM
    /\ M # init_matrix

\* C9: add_observation and reweight_observation called with a position outside
\* [0, n_positions+1] fail with IndexError and leave every cell unchanged.
C9_OutOfRangeFails ==
    [][(/\ last'.op \in {"add_observation", "reweight_observation"}
        /\ ~InRange(last'.pf, last'.pt))
       => (last'.err = "IndexError" /\ M' = M)]_vars

\* C10: marginal_of_at(symbol, position) is counts_at(position)[symbol] over
\* counts_at(position)["total"] when the symbol has a nonzero count there, and
\* fails with KeyError (the unknown symbol) when it has none.
C10_Marginal ==
    \A symbol \in symbols_i : \A position \in Positions :
        LET c == get_counts_at(M, position)
            r == get_marginal_of_at(M, symbol, position)
        IN  IF c.kind = "ok" /\ symbol \in DOMAIN c.marg
            THEN r.kind = "ok" /\ r.num = c.marg[symbol] /\ r.den = c.total
            ELSE r.kind = "KeyError"

\* the outcome the case split of reweight_observation gives for the last call l,
\* made on matrix m, when old is taken as the value old: the matrix and the
\* amount returned (new = old*(1-ratio) is held in fine units)
CaseSplit(m, l, old) ==
    LET new == (old * One) - (l.x * old)
    IN  IF old = 0 THEN [m |-> m, ret |-> 0]
        ELSE IF new < One * One
             THEN [m |-> [m EXCEPT ![LastCell(l)] = 0], ret |-> old]
             ELSE [m |-> [m EXCEPT ![LastCell(l)] = new \div One],
                   ret |-> old - (new \div One)]

C12_UpperTriangle ==
    \A c \in Cells : (c[3] > c[4]) => (M[c] = 0)

\* the paths and windows get_edge_weights_at is asked about
Paths == UNION {[1 .. n -> symbols_i] : n \in 0 .. MaxPath}
Windows == 0 .. MaxWindow

\* C13: whenever edge_weights_at(position, current_path, window_size) returns,
\* the score of each scored symbol is made of exactly
\* L = min(len(current_path) - 1, window_size) conditional terms when position > 1
\* (none when that is negative), the k-th on the path entry at index
\* len(current_path) - k, that index being the conditioning position, then one
\* marginal term; when position <= 1, of the marginal term alone.
C13_BoundedWindow ==
    \A position \in Positions :
        \* a position whose counts_at fails or is empty has no scored symbol
        LET counts == get_counts_at(M, position)
        IN  (counts.kind = "ok" /\ DOMAIN counts.marg # {}) =>
            \A window_size \in Windows : \A current_path \in Paths :
                LET r == get_edge_weights_at(M, window_size, position, current_path)
                    n == Len(current_path)
                    least == IF n - 1 < window_size THEN n - 1 ELSE window_size
                    L == IF position > 1 /\ least > 0 THEN least ELSE 0
                IN  (r.kind = "ok") =>
                        \A symbol \in DOMAIN r.curr_branches :
                            LET t == r.curr_branches[symbol]
                            IN  /\ Len(t) = L + 1
                                /\ \A k \in 1 .. L :
                                      /\ t[k].fn = "conditional"
                                      /\ t[k].pf = n - k
                                      /\ t[k].sf = current_path[(n - k) + 1]
                                      /\ t[k].st = symbol
                                      /\ t[k].pt = position
                                /\ t[L + 1].fn = "marginal"
                                /\ t[L + 1].sf = symbol
                                /\ t[L + 1].pf = position

\* C13 witness: at position 2, with window 1 and a path of three entries, a
\* symbol is scored with one conditional term, on the last path entry, whose
\* pair was observed, and the marginal term
C13_Witness ==
    \E current_path \in Paths :
        LET r == get_edge_weights_at(M, 1, 2, current_path)
        IN  /\ Len(current_path) = 3
            /\ r.kind = "ok"
            /\ \E symbol \in DOMAIN r.curr_branches :
                  LET t == r.curr_branches[symbol]
                  IN  /\ Len(t) = 2
                      /\ t[1].fn = "conditional"
                      /\ t[1].pf = 2
                      /\ t[1].val.num > One
                      /\ t[2].fn = "marginal"

====
